---- MODULE Spec2Model ----
(***************************************************************************)
(* Model of the v2d collision and raycast kernel (src/src/collide.c).      *)
(*                                                                         *)
(* Every function of the kernel is a pure function of its arguments.  Each *)
(* is modelled as an operator computed the way the C code computes it,     *)
(* and as an action that applies it to arguments drawn from bounded sets.  *)
(*                                                                         *)
(* A C double is modelled as an exact value: a rational n/d (d > 0), with  *)
(* an optional square-root term sg*sqrt[sn/sd] for the results of sqrt[],  *)
(* or one of the IEEE-754 special values +infinity, -infinity and NaN.     *)
(* Arithmetic on the finite values is exact; the special values follow     *)
(* IEEE-754 (1/0 = +inf, 0*inf = NaN, inf-inf = NaN, comparisons with NaN  *)
(* are false, fmin/fmax return the other argument when one is NaN).        *)
(* The operations on doubles and vectors are functions, so that each       *)
(* operand is evaluated once, as in C.                                     *)
(***************************************************************************)
EXTENDS Integers, FiniteSets

VARIABLES fn, pc, pt, ca, cb, ra, rb, ray, retb, retd, retr, divs

vars == <<fn, pc, pt, ca, cb, ra, rb, ray, retb, retd, retr, divs>>

----------------------------------------------------------------------------
(* Bounds of the argument sets.                                            *)

\* rect extents range over -MaxDim..MaxDim on each axis (either sign)
MaxDim == 1
\* points, circle centres and ray origins range over -MaxCoord..MaxCoord
MaxCoord == 2
\* ray direction components range over -MaxDir..MaxDir
MaxDir == 3
\* circle radii range over -MaxRad..MaxRad (a negative radius is not guarded)
MaxRad == 2
\* the direction components of the rays cast at circles range over
\* -MaxLen..MaxLen
MaxLen == 4

----------------------------------------------------------------------------
(* C doubles.                                                              *)

Gcd[i \in Nat, j \in Nat] == IF j = 0 THEN i ELSE Gcd[j, i % j]

Abs(i) == IF i < 0 THEN -i ELSE i

\* the value n/d + sg*sqrt(sn/sd) with both fractions in lowest terms
\* (d > 0, sd > 0, sn >= 0)
Val(n, d, sg, sn, sd) ==
    LET g == Gcd[Abs(n), d]
        h == Gcd[sn, sd]
    IN  IF sg = 0 \/ sn = 0
        THEN [k |-> "fin", n |-> n \div g, d |-> d \div g, sg |-> 0, sn |-> 0, sd |-> 1]
        ELSE [k |-> "fin", n |-> n \div g, d |-> d \div g,
              sg |-> sg, sn |-> sn \div h, sd |-> sd \div h]

Fin(n, d) == Val(n, d, 0, 0, 1)

D(i) == [k |-> "fin", n |-> i, d |-> 1, sg |-> 0, sn |-> 0, sd |-> 1]

INFINITY == [k |-> "pinf", n |-> 0, d |-> 1, sg |-> 0, sn |-> 0, sd |-> 1]

NegInfinity == [k |-> "ninf", n |-> 0, d |-> 1, sg |-> 0, sn |-> 0, sd |-> 1]

NaN == [k |-> "nan", n |-> 0, d |-> 1, sg |-> 0, sn |-> 0, sd |-> 1]

\* the values of a C double
Double ==
    [k : {"fin", "pinf", "ninf", "nan"}, n : Int, d : Nat \ {0},
     sg : {-1, 0, 1}, sn : Nat, sd : Nat \ {0}]

Sgn(i) == IF i > 0 THEN 1 ELSE IF i < 0 THEN -1 ELSE 0

\* the sign of the finite value n/d + sg*sqrt(sn/sd)
SignOf[x \in Double] ==
    IF x.sg = 0 \/ x.sn = 0 THEN Sgn(x.n)
    ELSE IF x.n = 0 \/ Sgn(x.n) = x.sg THEN x.sg
    ELSE LET lhs == x.n * x.n * x.sd
             rhs == x.sn * x.d * x.d
         IN  IF lhs > rhs THEN Sgn(x.n) ELSE IF lhs < rhs THEN x.sg ELSE 0

\* unary minus
Neg[x \in Double] ==
    CASE x.k = "nan"  -> NaN
      [] x.k = "pinf" -> NegInfinity
      [] x.k = "ninf" -> INFINITY
      [] x.k = "fin"  -> [x EXCEPT !.n = -x.n, !.sg = -x.sg]

\* x + y; at most one of two finite operands carries a square-root term
Add[x \in Double, y \in Double] ==
    CASE x.k = "nan" \/ y.k = "nan" -> NaN
      [] x.k = "pinf" -> IF y.k = "ninf" THEN NaN ELSE INFINITY
      [] x.k = "ninf" -> IF y.k = "pinf" THEN NaN ELSE NegInfinity
      [] x.k = "fin" /\ y.k # "fin" -> y
      [] x.k = "fin" /\ y.k = "fin" /\ y.sg = 0 ->
            Val(x.n * y.d + y.n * x.d, x.d * y.d, x.sg, x.sn, x.sd)
      [] x.k = "fin" /\ y.k = "fin" /\ y.sg # 0 /\ x.sg = 0 ->
            Val(x.n * y.d + y.n * x.d, x.d * y.d, y.sg, y.sn, y.sd)

\* x - y
Sub[x \in Double, y \in Double] == Add[x, Neg[y]]

\* x * y; a finite operand with a square-root term is only scaled by a rational
Mul[x \in Double, y \in Double] ==
    CASE x.k = "nan" \/ y.k = "nan" -> NaN
      [] x.k # "fin" /\ y.k # "fin" ->
            IF x.k = y.k THEN INFINITY ELSE NegInfinity
      [] x.k # "fin" /\ y.k = "fin" ->
            IF SignOf[y] = 0 THEN NaN
            ELSE IF (x.k = "pinf") = (SignOf[y] > 0) THEN INFINITY ELSE NegInfinity
      [] x.k = "fin" /\ y.k # "fin" ->
            IF SignOf[x] = 0 THEN NaN
            ELSE IF (y.k = "pinf") = (SignOf[x] > 0) THEN INFINITY ELSE NegInfinity
      [] x.k = "fin" /\ y.k = "fin" /\ y.sg = 0 ->
            Val(x.n * y.n, x.d * y.d,
                x.sg * Sgn(y.n), x.sn * y.n * y.n, x.sd * y.d * y.d)
      [] x.k = "fin" /\ y.k = "fin" /\ y.sg # 0 /\ x.sg = 0 ->
            Val(x.n * y.n, x.d * y.d,
                y.sg * Sgn(x.n), y.sn * x.n * x.n, y.sd * x.d * x.d)

\* 1 / x for a rational or special x (the zero of the model is +0)
Inv[x \in Double] ==
    CASE x.k = "nan" -> NaN
      [] x.k = "pinf" \/ x.k = "ninf" -> D(0)
      [] x.k = "fin" /\ x.sg = 0 /\ x.n = 0 -> INFINITY
      [] x.k = "fin" /\ x.sg = 0 /\ x.n > 0 -> Fin(x.d, x.n)
      [] x.k = "fin" /\ x.sg = 0 /\ x.n < 0 -> Fin(-x.d, -x.n)

\* x < y
Lt[x \in Double, y \in Double] ==
    CASE x.k = "nan" \/ y.k = "nan" -> FALSE
      [] x.k = "pinf" -> FALSE
      [] x.k = "ninf" -> y.k # "ninf"
      [] x.k = "fin" /\ y.k = "pinf" -> TRUE
      [] x.k = "fin" /\ y.k = "ninf" -> FALSE
      [] x.k = "fin" /\ y.k = "fin" -> SignOf[Sub[x, y]] < 0

\* x > y
Gt[x \in Double, y \in Double] == Lt[y, x]

\* x == y
Eq[x \in Double, y \in Double] ==
    CASE x.k = "nan" \/ y.k = "nan" -> FALSE
      [] x.k = "fin" /\ y.k = "fin" -> SignOf[Sub[x, y]] = 0
      [] OTHER -> x.k = y.k

\* x <= y
Le[x \in Double, y \in Double] == Lt[x, y] \/ Eq[x, y]

\* x >= y
Ge[x \in Double, y \in Double] == Le[y, x]

\* fmax of <math.h>: the larger argument; the other one when one is NaN
fmax[x \in Double, y \in Double] ==
    IF x.k = "nan" THEN y
    ELSE IF y.k = "nan" THEN x
    ELSE IF Lt[x, y] THEN y ELSE x

\* fmin of <math.h>: the smaller argument; the other one when one is NaN
fmin[x \in Double, y \in Double] ==
    IF x.k = "nan" THEN y
    ELSE IF y.k = "nan" THEN x
    ELSE IF Lt[y, x] THEN y ELSE x

IsSquare(i) == \E s \in 0..i : s * s = i

\* sqrt of <math.h> for a rational or special x: exact when x is the square
\* of a rational, a square-root term otherwise
sqrt[x \in Double] ==
    CASE x.k = "nan" \/ x.k = "ninf" -> NaN
      [] x.k = "pinf" -> INFINITY
      [] x.k = "fin" /\ x.sg = 0 /\ x.n < 0 -> NaN
      [] x.k = "fin" /\ x.sg = 0 /\ x.n >= 0 /\ IsSquare(x.n * x.d) ->
            Fin(CHOOSE s \in 0..(x.n * x.d) : s * s = x.n * x.d, x.d)
      [] x.k = "fin" /\ x.sg = 0 /\ x.n >= 0 /\ ~IsSquare(x.n * x.d) ->
            Val(0, 1, 1, x.n, x.d)

----------------------------------------------------------------------------
(* The vector arithmetic the kernel is built on (v2d/vector.h).            *)

v2d_vec(x, y) == [x |-> x, y |-> y]

v2dvx(v) == v.x

v2dvy(v) == v.y

\* the values of a v2d_vec_t
Vector == [x : Double, y : Double]

\* a + b on vectors
VAdd[a \in Vector, b \in Vector] == v2d_vec(Add[a.x, b.x], Add[a.y, b.y])

\* a - b on vectors
VSub[a \in Vector, b \in Vector] == v2d_vec(Sub[a.x, b.x], Sub[a.y, b.y])

\* v * s for a scalar s
VScale[v \in Vector, s \in Double] == v2d_vec(Mul[v.x, s], Mul[v.y, s])

\* v == 0
VIsZero[v \in Vector] == Eq[v.x, D(0)] /\ Eq[v.y, D(0)]

v2d_vec_dot[a \in Vector, b \in Vector] == Add[Mul[a.x, b.x], Mul[a.y, b.y]]

v2d_vec_mag2[v \in Vector] == v2d_vec_dot[v, v]

v2d_vec_mag[v \in Vector] == sqrt[v2d_vec_mag2[v]]

Vec(i, j) == v2d_vec(D(i), D(j))

Circle(pos, rad) == [pos |-> pos, rad |-> rad]

Rect(pos, dim) == [pos |-> pos, dim |-> dim]

Ray(pos, dir) == [pos |-> pos, dir |-> dir]

----------------------------------------------------------------------------
(* collide.c                                                               *)

\* RectFixAxis with the position left unfixed (line 29 missing)
RectFixAxis_NoShift(p, d) ==
    IF Lt[d, D(0)] THEN <<p, Neg[d]>> ELSE <<p, d>>

\* one iteration of the loop of _rect_fix on the axis with origin p, extent d:
\* the pair <<p, d>> after it
RectFixAxis(p, d) ==
    IF Lt[d, D(0)]
    THEN <<Sub[p, Neg[d]], Neg[d]>>
    ELSE <<p, d>>

\* the rect whose axes are the pairs fx and fy
RectOfAxes(fx, fy) == Rect(v2d_vec(fx[1], fy[1]), v2d_vec(fx[2], fy[2]))

_rect_fix(r) ==
    RectOfAxes(RectFixAxis(r.pos.x, r.dim.x), RectFixAxis(r.pos.y, r.dim.y))

\* _clamp trusting the order of its bounds (the test of line 8 missing)
_clamp_Ordered(a, min, max) == fmax[min, fmin[max, a]]

\* Clamp a scalar to between two others
_clamp(a, min, max) ==
    IF Lt[min, max] THEN fmax[min, fmin[max, a]]
    ELSE fmax[max, fmin[min, a]]

\* Clamp a vector to between two others
_clampv(a, min, max) ==
    v2d_vec(_clamp(v2dvx(a), v2dvx(min), v2dvx(max)),
            _clamp(v2dvy(a), v2dvy(min), v2dvy(max)))

v2d_collide_point_circle(p, c) ==
    Lt[v2d_vec_mag2[VSub[c.pos, p]], Mul[c.rad, c.rad]]

\* lines 44-49: the four tests of v2d_collide_point_rect on the corners
PointBetween(p, min, max) ==
    IF Lt[v2dvx(p), v2dvx(min)] THEN FALSE
    ELSE IF Gt[v2dvx(p), v2dvx(max)] THEN FALSE
    ELSE IF Lt[v2dvy(p), v2dvy(min)] THEN FALSE
    ELSE IF Gt[v2dvy(p), v2dvy(max)] THEN FALSE
    ELSE TRUE

\* PointBetween with the far edges excluded (>= for > in lines 45, 47)
PointBetween_Exclusive(p, min, max) ==
    IF Lt[v2dvx(p), v2dvx(min)] THEN FALSE
    ELSE IF Ge[v2dvx(p), v2dvx(max)] THEN FALSE
    ELSE IF Lt[v2dvy(p), v2dvy(min)] THEN FALSE
    ELSE IF Ge[v2dvy(p), v2dvy(max)] THEN FALSE
    ELSE TRUE

\* line 42 on: v2d_collide_point_rect once b is normalized
PointInFixed(p, b) == PointBetween(p, b.pos, VAdd[b.pos, b.dim])

\* v2d_collide_point_rect with the far edges excluded
v2d_collide_point_rect_Exclusive(p, b) ==
    PointBetween_Exclusive(p, _rect_fix(b).pos, VAdd[_rect_fix(b).pos, _rect_fix(b).dim])

v2d_collide_point_rect(p, b) == PointInFixed(p, _rect_fix(b))

\* v2d_collide_circle_circle with tangent circles colliding (<= for < in line 56)
v2d_collide_circle_circle_Inclusive(a, b) ==
    LET d == Add[a.rad, b.rad]
    IN  Le[v2d_vec_mag2[VSub[a.pos, b.pos]], Mul[d, d]]

v2d_collide_circle_circle(a, b) ==
    LET d == Add[a.rad, b.rad]
    IN  Lt[v2d_vec_mag2[VSub[a.pos, b.pos]], Mul[d, d]]

\* lines 68-78: the four tests of v2d_collide_rect_rect on the corners
Overlap(amin, amax, bmin, bmax) ==
    IF Lt[v2dvx(amax), v2dvx(bmin)] THEN FALSE
    ELSE IF Lt[v2dvx(bmax), v2dvx(amin)] THEN FALSE
    ELSE IF Lt[v2dvy(amax), v2dvy(bmin)] THEN FALSE
    ELSE IF Lt[v2dvy(bmax), v2dvy(amin)] THEN FALSE
    ELSE TRUE

\* Overlap with touching rects separated (<= for < in line 69)
Overlap_Exclusive(amin, amax, bmin, bmax) ==
    IF Le[v2dvx(amax), v2dvx(bmin)] THEN FALSE
    ELSE IF Lt[v2dvx(bmax), v2dvx(amin)] THEN FALSE
    ELSE IF Lt[v2dvy(amax), v2dvy(bmin)] THEN FALSE
    ELSE IF Lt[v2dvy(bmax), v2dvy(amin)] THEN FALSE
    ELSE TRUE

\* lines 65 on: v2d_collide_rect_rect once a and b are normalized
OverlapFixed(a, b) ==
    Overlap(a.pos, VAdd[a.pos, a.dim], b.pos, VAdd[b.pos, b.dim])

\* v2d_collide_rect_rect with touching rects separated
v2d_collide_rect_rect_Exclusive(a, b) ==
    Overlap_Exclusive(_rect_fix(a).pos, VAdd[_rect_fix(a).pos, _rect_fix(a).dim],
                      _rect_fix(b).pos, VAdd[_rect_fix(b).pos, _rect_fix(b).dim])

v2d_collide_rect_rect(a, b) == OverlapFixed(_rect_fix(a), _rect_fix(b))

v2d_collide_circle_rect(a, b) ==
    LET min == b.pos
        max == VAdd[b.pos, b.dim]
    IN  Lt[v2d_vec_mag2[VSub[_clampv(a.pos, min, max), a.pos]], Mul[a.rad, a.rad]]

\* lines 88-90: none of the three shortcuts of v2d_raycast_circle returns
CirclePastShortcuts(r, c) ==
    /\ ~v2d_collide_point_circle(r.pos, c)
    /\ ~VIsZero[r.dir]
    /\ ~v2d_collide_point_circle(VAdd[r.pos, r.dir], c)

\* lines 128-130: none of the three shortcuts of v2d_raycast_rect returns
RectPastShortcuts(r, b) ==
    /\ ~v2d_collide_point_rect(r.pos, b)
    /\ ~VIsZero[r.dir]
    /\ ~v2d_collide_point_rect(VAdd[r.pos, r.dir], b)

\* lines 120-121 and 158-159: h is returned only when it lies in [0, 1]
InRange(h) == IF Le[D(0), h] /\ Le[h, D(1)] THEN h ELSE INFINITY

\* lines 104-105: proj kept inside the ray
ClampProj(proj, rmag) ==
    IF Lt[proj, D(0)] THEN D(0)
    ELSE IF Gt[proj, rmag] THEN rmag
    ELSE proj

\* lines 108-121: the hit, from the clamped projection
CircleHit(r, cpos, rad2, proj, rimag, distance) ==
    IF Ge[distance, rad2] THEN INFINITY
    ELSE InRange(Mul[Sub[proj, sqrt[Sub[rad2, distance]]], rimag])

\* lines 101-108: the projection of the centre onto the ray and its distance
\* to the centre
CircleProject(r, cpos, rad2, proj, rimag) ==
    CircleHit(r, cpos, rad2, proj, rimag,
              v2d_vec_mag2[VSub[cpos, VScale[VScale[r.dir, proj], rimag]]])

\* lines 93-105, once the three shortcuts have not returned
CircleCast(r, cpos, rad2, rmag) ==
    CircleProject(r, cpos, rad2,
                  ClampProj(Mul[v2d_vec_dot[cpos, r.dir], Inv[rmag]], rmag),
                  Inv[rmag])

v2d_raycast_circle(r, c) ==
    IF v2d_collide_point_circle(r.pos, c) THEN D(0)
    ELSE IF VIsZero[r.dir] THEN INFINITY
    ELSE IF v2d_collide_point_circle(VAdd[r.pos, r.dir], c) THEN D(0)
    ELSE CircleCast(r, VSub[c.pos, r.pos], Mul[c.rad, c.rad], v2d_vec_mag[r.dir])

\* the divisors of the divisions v2d_raycast_circle executes (line 97)
RaycastCircleDivisors(r, c) ==
    IF CirclePastShortcuts(r, c)
    THEN {v2d_vec_mag[r.dir]}
    ELSE {}

\* lines 141-142 and 151-152: where the ray crosses the plane at bound, from
\* the ray's origin and the inverse of its direction on that axis
Crossing(bound, origin, coef) == Mul[Sub[bound, origin], coef]

\* lines 143-144: the slab of one axis, from its two crossings
AxisSlab(h1, h2) ==
    [h1 |-> h1, h2 |-> h2, hmax |-> fmax[h1, h2], hmin |-> fmin[h1, h2]]

\* lines 134-144: the x slab of the normalized rect b
SlabXFixed(r, b) ==
    AxisSlab(Crossing(v2dvx(b.pos), v2dvx(r.pos), Inv[v2dvx(r.dir)]),
             Crossing(v2dvx(VAdd[b.pos, b.dim]), v2dvx(r.pos), Inv[v2dvx(r.dir)]))

\* lines 150-152: the y slab of the normalized rect b
SlabYFixed(r, b) ==
    AxisSlab(Crossing(v2dvy(b.pos), v2dvy(r.pos), Inv[v2dvy(r.dir)]),
             Crossing(v2dvy(VAdd[b.pos, b.dim]), v2dvy(r.pos), Inv[v2dvy(r.dir)]))

\* lines 153-154: the slab sx chopped at the slab sy
Chop(sx, sy) ==
    [h1 |-> sy.h1, h2 |-> sy.h2,
     hmax |-> fmin[sx.hmax, sy.hmax],
     hmin |-> fmax[sx.hmin, sy.hmin]]

\* lines 133-144: the crossings h1, h2 of the two x planes, and hmax and hmin
\* after the x slab
SlabX(r, b) == SlabXFixed(r, _rect_fix(b))

\* lines 150-154: the crossings h1, h2 of the two y planes, and hmax and hmin
\* after the y slab has been intersected with the x slab
SlabXY(r, b) == Chop(SlabX(r, b), SlabYFixed(r, _rect_fix(b)))

\* SlabResult with the candidate returned unchecked (line 158 missing)
SlabResult_Unchecked(hmin, hmax) == IF Lt[hmin, D(0)] THEN hmax ELSE hmin

\* lines 157-159: the candidate is the entry value hmin, or the exit value
\* hmax when hmin < 0; it is returned only when it lies in [0, 1]
SlabResult(hmin, hmax) == InRange(IF Lt[hmin, D(0)] THEN hmax ELSE hmin)

\* lines 147 and 156-159: no hit when a slab is empty, else the candidate;
\* sx is the x slab, s the x slab chopped at the y slab
SlabCast(sx, s) ==
    IF Lt[sx.hmax, sx.hmin] THEN INFINITY
    ELSE IF Lt[s.hmax, s.hmin] THEN INFINITY
    ELSE SlabResult(s.hmin, s.hmax)

\* v2d_raycast_rect with the zero-direction check first (lines 128, 129
\* swapped)
v2d_raycast_rect_ZeroFirst(r, b) ==
    IF VIsZero[r.dir] THEN INFINITY
    ELSE IF v2d_collide_point_rect(r.pos, b) THEN D(0)
    ELSE IF v2d_collide_point_rect(VAdd[r.pos, r.dir], b) THEN D(0)
    ELSE SlabCast(SlabX(r, b), SlabXY(r, b))

\* v2d_raycast_rect without the end point shortcut (line 130 missing)
v2d_raycast_rect_NoEndShortcut(r, b) ==
    IF v2d_collide_point_rect(r.pos, b) THEN D(0)
    ELSE IF VIsZero[r.dir] THEN INFINITY
    ELSE SlabCast(SlabX(r, b), SlabXY(r, b))

v2d_raycast_rect(r, b) ==
    IF v2d_collide_point_rect(r.pos, b) THEN D(0)
    ELSE IF VIsZero[r.dir] THEN INFINITY
    ELSE IF v2d_collide_point_rect(VAdd[r.pos, r.dir], b) THEN D(0)
    ELSE SlabCast(SlabX(r, b), SlabXY(r, b))

\* the divisors of the divisions v2d_raycast_rect executes (lines 140, 150)
RaycastRectDivisors(r, b) ==
    IF ~RectPastShortcuts(r, b) THEN {}
    ELSE IF Lt[SlabX(r, b).hmax, SlabX(r, b).hmin] THEN {v2dvx(r.dir)}
    ELSE {v2dvx(r.dir), v2dvy(r.dir)}

----------------------------------------------------------------------------
(* The argument sets.                                                      *)

Coords == -MaxCoord..MaxCoord

Points == {Vec(i, j) : i \in Coords, j \in Coords}

Dims == {Vec(i, j) : i \in -MaxDim..MaxDim, j \in -MaxDim..MaxDim}

\* rects of either orientation with the origin at (0, 0)
Rects == {Rect(Vec(0, 0), d) : d \in Dims}

\* rects of either orientation with the origin anywhere
WideRects == {Rect(p, d) : p \in Points, d \in Dims}

Radii == {D(i) : i \in -MaxRad..MaxRad}

\* circles with the centre at (0, 0)
Circles == {Circle(Vec(0, 0), rad) : rad \in Radii}

\* circles with the centre anywhere
WideCircles == {Circle(p, rad) : p \in Points, rad \in Radii}

Dirs == {Vec(i, j) : i \in -MaxDir..MaxDir, j \in -MaxDir..MaxDir}

Rays == {Ray(p, d) : p \in Points, d \in Dirs}

\* the rays whose length is rational, so that v2d_vec_mag is exact
RationalRays ==
    {Ray(p, Vec(i, j)) : p \in Points,
        <<i, j>> \in {q \in (-MaxLen..MaxLen) \X (-MaxLen..MaxLen) :
                          IsSquare(q[1] * q[1] + q[2] * q[2])}}

NoVec == Vec(0, 0)

NoCircle == Circle(NoVec, D(0))

NoRect == Rect(NoVec, NoVec)

NoRay == Ray(NoVec, NoVec)

----------------------------------------------------------------------------
(* The calls.  fn names the function called, pc is "call" before the call  *)
(* and "done" after it; retb, retd and retr hold a boolean, double or rect *)
(* return value; divs holds the divisors of the divisions the call made.   *)

Idle ==
    /\ pc = "call"
    /\ retb = FALSE
    /\ retd = D(0)
    /\ retr = NoRect
    /\ divs = {}

Args(f, p, a, b, ar, br, r) ==
    /\ fn = f
    /\ pt = p
    /\ ca = a
    /\ cb = b
    /\ ra = ar
    /\ rb = br
    /\ ray = r

Return == UNCHANGED <<fn, pt, ca, cb, ra, rb, ray>>

\* retr = _rect_fix(ra)
RectFix ==
    /\ fn = "_rect_fix" /\ pc = "call"
    /\ retr' = _rect_fix(ra)
    /\ pc' = "done"
    /\ Return /\ UNCHANGED <<retb, retd, divs>>

\* the result normalized once more: retr = _rect_fix(retr)
RectFixAgain ==
    /\ fn = "_rect_fix" /\ pc = "done"
    /\ retr' = _rect_fix(retr)
    /\ pc' = "again"
    /\ Return /\ UNCHANGED <<retb, retd, divs>>

PointCircle ==
    /\ fn = "v2d_collide_point_circle" /\ pc = "call"
    /\ retb' = v2d_collide_point_circle(pt, ca)
    /\ pc' = "done"
    /\ Return /\ UNCHANGED <<retd, retr, divs>>

PointRect ==
    /\ fn = "v2d_collide_point_rect" /\ pc = "call"
    /\ retb' = v2d_collide_point_rect(pt, ra)
    /\ pc' = "done"
    /\ Return /\ UNCHANGED <<retd, retr, divs>>

CircleCircle ==
    /\ fn = "v2d_collide_circle_circle" /\ pc = "call"
    /\ retb' = v2d_collide_circle_circle(ca, cb)
    /\ pc' = "done"
    /\ Return /\ UNCHANGED <<retd, retr, divs>>

RectRect ==
    /\ fn = "v2d_collide_rect_rect" /\ pc = "call"
    /\ retb' = v2d_collide_rect_rect(ra, rb)
    /\ pc' = "done"
    /\ Return /\ UNCHANGED <<retd, retr, divs>>

CircleRect ==
    /\ fn = "v2d_collide_circle_rect" /\ pc = "call"
    /\ retb' = v2d_collide_circle_rect(ca, ra)
    /\ pc' = "done"
    /\ Return /\ UNCHANGED <<retd, retr, divs>>

RaycastCircle ==
    /\ fn = "v2d_raycast_circle" /\ pc = "call"
    /\ retd' = v2d_raycast_circle(ray, ca)
    /\ divs' = RaycastCircleDivisors(ray, ca)
    /\ pc' = "done"
    /\ Return /\ UNCHANGED <<retb, retr>>

RaycastRect ==
    /\ fn = "v2d_raycast_rect" /\ pc = "call"
    /\ retd' = v2d_raycast_rect(ray, ra)
    /\ divs' = RaycastRectDivisors(ray, ra)
    /\ pc' = "done"
    /\ Return /\ UNCHANGED <<retb, retr>>

\* _rect_fix applied to every rect, and to its own result
InitFix ==
    /\ Idle
    /\ \E r \in WideRects : Args("_rect_fix", NoVec, NoCircle, NoCircle, r, NoRect, NoRay)

NextFix == RectFix \/ RectFixAgain

SpecFix == InitFix /\ [][NextFix]_vars

\* the two circle tests
InitCircle ==
    /\ Idle
    /\ \/ \E p \in Points, c \in WideCircles :
            Args("v2d_collide_point_circle", p, c, NoCircle, NoRect, NoRect, NoRay)
       \/ \E a \in Circles, b \in WideCircles :
            Args("v2d_collide_circle_circle", NoVec, a, b, NoRect, NoRect, NoRay)

NextCircle == PointCircle \/ CircleCircle

SpecCircle == InitCircle /\ [][NextCircle]_vars

\* the three rect tests
InitRect ==
    /\ Idle
    /\ \/ \E p \in Points, r \in WideRects :
            Args("v2d_collide_point_rect", p, NoCircle, NoCircle, r, NoRect, NoRay)
       \/ \E a \in Rects, b \in WideRects :
            Args("v2d_collide_rect_rect", NoVec, NoCircle, NoCircle, a, b, NoRay)
       \/ \E a \in Circles, b \in WideRects :
            Args("v2d_collide_circle_rect", NoVec, a, NoCircle, b, NoRect, NoRay)

NextRect == PointRect \/ RectRect \/ CircleRect

SpecRect == InitRect /\ [][NextRect]_vars

\* the two raycasts
InitRaycast ==
    /\ Idle
    /\ \/ \E r \in RationalRays, c \in Circles :
            Args("v2d_raycast_circle", NoVec, c, NoCircle, NoRect, NoRect, r)
       \/ \E r \in Rays, b \in Rects :
            Args("v2d_raycast_rect", NoVec, NoCircle, NoCircle, b, NoRect, r)

NextRaycast == RaycastCircle \/ RaycastRect

SpecRaycast == InitRaycast /\ [][NextRaycast]_vars

Init == InitFix \/ InitCircle \/ InitRect \/ InitRaycast

Next == NextFix \/ NextCircle \/ NextRect \/ NextRaycast

\* every function of the kernel
Spec == Init /\ [][Next]_vars

----------------------------------------------------------------------------
(* The properties.  The arguments of every call are integers, so what a    *)
(* call should return is stated on the integers, independently of the      *)
(* arithmetic above.                                                       *)

\* the integer a double argument holds
I(x) == x.n

Min(i, j) == IF i < j THEN i ELSE j

Max(i, j) == IF i < j THEN j ELSE i

\* the integer coordinates any corner of any rect argument can have
Grid == -(MaxCoord + MaxDim)..(MaxCoord + MaxDim)

\* the closed interval a rect covers on one axis, from origin o and extent e
Lo(o, e) == Min(o, o + e)

Hi(o, e) == Max(o, o + e)

\* the double x is the integer i
IsInt(x, i) == x = D(i)

\* the rect out is the rect in with the sign of its extent corrected
Normalized(in, out) ==
    /\ IsInt(out.pos.x, Lo(I(in.pos.x), I(in.dim.x)))
    /\ IsInt(out.pos.y, Lo(I(in.pos.y), I(in.dim.y)))
    /\ IsInt(out.dim.x, Hi(I(in.pos.x), I(in.dim.x)) - Lo(I(in.pos.x), I(in.dim.x)))
    /\ IsInt(out.dim.y, Hi(I(in.pos.y), I(in.dim.y)) - Lo(I(in.pos.y), I(in.dim.y)))
    /\ I(out.dim.x) >= 0 /\ I(out.dim.y) >= 0
    /\ I(in.dim.x) >= 0 => out.pos.x = in.pos.x /\ out.dim.x = in.dim.x
    /\ I(in.dim.y) >= 0 => out.pos.y = in.pos.y /\ out.dim.y = in.dim.y

\* C4: _rect_fix is sign-correcting, area-preserving and idempotent: on each
\* axis the result has a non-negative extent, its origin is min(origin,
\* origin+extent) and its far corner max(origin, origin+extent), an axis with
\* a non-negative extent is untouched, and normalizing the result again
\* returns it unchanged; origin (5,5) extent (-2,3) becomes (3,5), (2,3).
C4_RectFixNormalizes ==
    /\ fn = "_rect_fix" /\ pc \in {"done", "again"} => Normalized(ra, retr)
    /\ fn = "_rect_fix" /\ pc = "again" => retr = _rect_fix(ra)
    /\ _rect_fix(Rect(Vec(5, 5), Vec(-2, 3))) = Rect(Vec(3, 5), Vec(2, 3))

\* a rect with one negative and one positive extent has been normalized twice
C4_Witness ==
    /\ fn = "_rect_fix" /\ pc = "again"
    /\ I(ra.dim.x) < 0 /\ I(ra.dim.y) > 0 /\ I(ra.pos.x) # 0
    /\ retr # ra

\* the integer point (x, y) lies in the closed area of the rect b
InRect(x, y, b) ==
    /\ Lo(I(b.pos.x), I(b.dim.x)) <= x /\ x <= Hi(I(b.pos.x), I(b.dim.x))
    /\ Lo(I(b.pos.y), I(b.dim.y)) <= y /\ y <= Hi(I(b.pos.y), I(b.dim.y))

\* the integer point (x, y) lies on an edge or a corner of the rect b
OnEdge(x, y, b) ==
    /\ InRect(x, y, b)
    /\ \/ x \in {Lo(I(b.pos.x), I(b.dim.x)), Hi(I(b.pos.x), I(b.dim.x))}
       \/ y \in {Lo(I(b.pos.y), I(b.dim.y)), Hi(I(b.pos.y), I(b.dim.y))}

\* the square of the distance between two integer points
Dist2(x1, y1, x2, y2) == (x1 - x2) * (x1 - x2) + (y1 - y2) * (y1 - y2)

\* C7: v2d_collide_point_rect is inclusive of the boundary and independent of
\* how the rect was authored: it returns true if and only if on each axis
\* min(origin, origin+extent) <= p <= max(origin, origin+extent), and the
\* result for a rect equals the result for its normalized form.
C7_PointRectInclusive ==
    fn = "v2d_collide_point_rect" /\ pc = "done" =>
        /\ retb = InRect(I(pt.x), I(pt.y), ra)
        /\ retb = v2d_collide_point_rect(pt, _rect_fix(ra))

\* a point on an edge of a rect given with a negative extent is contained
C7_Witness ==
    /\ fn = "v2d_collide_point_rect" /\ pc = "done"
    /\ I(ra.dim.x) < 0 /\ I(ra.dim.y) # 0
    /\ OnEdge(I(pt.x), I(pt.y), ra)
    /\ retb

\* the closed intervals of the rects a and b intersect on both axes
Intersect(a, b) ==
    /\ \E t \in Grid :
        /\ Lo(I(a.pos.x), I(a.dim.x)) <= t /\ t <= Hi(I(a.pos.x), I(a.dim.x))
        /\ Lo(I(b.pos.x), I(b.dim.x)) <= t /\ t <= Hi(I(b.pos.x), I(b.dim.x))
    /\ \E t \in Grid :
        /\ Lo(I(a.pos.y), I(a.dim.y)) <= t /\ t <= Hi(I(a.pos.y), I(a.dim.y))
        /\ Lo(I(b.pos.y), I(b.dim.y)) <= t /\ t <= Hi(I(b.pos.y), I(b.dim.y))

\* C5: v2d_collide_rect_rect is the inclusive separating-axis test on the
\* normalized rects: it returns true if and only if the closed intervals of
\* the two rects intersect on both axes, so rects that exactly touch along an
\* edge or at a corner collide, and the result is the same with the two
\* arguments swapped.
C5_RectRectInclusive ==
    fn = "v2d_collide_rect_rect" /\ pc = "done" =>
        /\ retb = Intersect(ra, rb)
        /\ retb = v2d_collide_rect_rect(rb, ra)

\* two rects of non-zero area that exactly touch (amax = bmin on x) collide
C5_Witness ==
    /\ fn = "v2d_collide_rect_rect" /\ pc = "done"
    /\ I(ra.dim.x) # 0 /\ I(ra.dim.y) # 0 /\ I(rb.dim.x) < 0 /\ I(rb.dim.y) # 0
    /\ Hi(I(ra.pos.x), I(ra.dim.x)) = Lo(I(rb.pos.x), I(rb.dim.x))
    /\ retb

\* some integer point of the closed area of the rect b is at a squared
\* distance below rad^2 from the centre of the circle a
Reaches(a, b) ==
    \E x \in Grid, y \in Grid :
        /\ InRect(x, y, b)
        /\ Dist2(x, y, I(a.pos.x), I(a.pos.y)) < I(a.rad) * I(a.rad)

\* C6: v2d_collide_circle_rect returns true if and only if the point of the
\* rect nearest to the centre of the circle lies strictly inside the circle,
\* also for a rect with negative extent components: the result for any rect
\* equals the result for its normalized form, and it is true exactly when a
\* point of the enclosed area is at a squared distance < radius^2.
C6_CircleRectNearest ==
    fn = "v2d_collide_circle_rect" /\ pc = "done" =>
        /\ retb = Reaches(ca, ra)
        /\ retb = v2d_collide_circle_rect(ca, _rect_fix(ra))

\* a circle whose centre lies outside a rect given with negative extents,
\* beyond the corner the rect was authored from, reaches the rect
C6_Witness ==
    /\ fn = "v2d_collide_circle_rect" /\ pc = "done"
    /\ I(ra.dim.x) < 0 /\ I(ra.dim.y) < 0
    /\ I(ca.pos.x) > I(ra.pos.x)
    /\ ~InRect(I(ca.pos.x), I(ca.pos.y), ra)
    /\ retb

\* C8: the circle tests are exclusive of the boundary:
\* v2d_collide_point_circle returns true if and only if the squared distance
\* from the point to the centre is strictly less than radius^2, and
\* v2d_collide_circle_circle if and only if the squared centre distance is
\* strictly less than (radius_a + radius_b)^2; a point at distance exactly
\* radius is not contained and two tangent circles do not collide.
C8_CirclesExclusive ==
    /\ fn = "v2d_collide_point_circle" /\ pc = "done" =>
          retb = (Dist2(I(pt.x), I(pt.y), I(ca.pos.x), I(ca.pos.y))
                    < I(ca.rad) * I(ca.rad))
    /\ fn = "v2d_collide_circle_circle" /\ pc = "done" =>
          retb = (Dist2(I(ca.pos.x), I(ca.pos.y), I(cb.pos.x), I(cb.pos.y))
                    < (I(ca.rad) + I(cb.rad)) * (I(ca.rad) + I(cb.rad)))

\* two circles of radius 1 with centres exactly 2 apart do not collide
C8_Witness ==
    /\ fn = "v2d_collide_circle_circle" /\ pc = "done"
    /\ I(ca.rad) = 1 /\ I(cb.rad) = 1
    /\ Dist2(I(ca.pos.x), I(ca.pos.y), I(cb.pos.x), I(cb.pos.y)) = 4
    /\ ~retb

\* the double x is a finite value in [0, 1]
InUnit(x) ==
    /\ x.k = "fin"
    /\ IF x.sg = 0 THEN 0 <= x.n /\ x.n <= x.d
       ELSE Le[D(0), x] /\ Le[x, D(1)]

\* the origin and the end point of the ray argument, as integers
OriginX == I(ray.pos.x)

OriginY == I(ray.pos.y)

EndX == I(ray.pos.x) + I(ray.dir.x)

EndY == I(ray.pos.y) + I(ray.dir.y)

ZeroLength == I(ray.dir.x) = 0 /\ I(ray.dir.y) = 0

RectDone == fn = "v2d_raycast_rect" /\ pc = "done"

CircleDone == fn = "v2d_raycast_circle" /\ pc = "done"

\* v2d_raycast_rect got past its three shortcuts
RectSlabs ==
    /\ RectDone
    /\ ~ZeroLength
    /\ ~InRect(OriginX, OriginY, ra)
    /\ ~InRect(EndX, EndY, ra)

\* the candidate h of line 157
Candidate(s) == IF Lt[s.hmin, D(0)] THEN s.hmax ELSE s.hmin

\* v2d_raycast_rect reached line 157: neither emptiness test returned
RectHasCandidate ==
    /\ RectSlabs
    /\ LET sx == SlabX(ray, ra) IN ~Lt[sx.hmax, sx.hmin]
    /\ LET s == SlabXY(ray, ra) IN ~Lt[s.hmax, s.hmin]

\* C1: the value returned by v2d_raycast_circle and by v2d_raycast_rect is
\* either the no-hit sentinel (positive infinity) or a value in [0, 1]; a
\* candidate outside [0, 1] is never returned and never clamped into the
\* range, it is reported as no hit.
C1_ResultInUnitOrNoHit ==
    /\ (RectDone \/ CircleDone) => retd = INFINITY \/ InUnit(retd)
    /\ RectHasCandidate /\ ~InUnit(Candidate(SlabXY(ray, ra))) => retd = INFINITY

\* a ray too short to reach the rect: the candidate is beyond 1, no hit
C1_Witness ==
    /\ RectHasCandidate
    /\ LET h == Candidate(SlabXY(ray, ra)) IN h.k = "fin" /\ Lt[D(1), h]
    /\ retd = INFINITY

\* C3: for a zero-length ray, v2d_raycast_circle and v2d_raycast_rect return
\* 0 when the ray origin is inside the target (exclusive test for the circle,
\* inclusive test for the rect) and the no-hit sentinel otherwise; the
\* origin-inside check takes precedence over the zero-direction check, and no
\* division by the zero direction is reached.
C3_ZeroLengthRay ==
    /\ CircleDone /\ ZeroLength =>
        /\ retd = IF Dist2(OriginX, OriginY, I(ca.pos.x), I(ca.pos.y))
                        < I(ca.rad) * I(ca.rad)
                  THEN D(0) ELSE INFINITY
        /\ divs = {}
    /\ RectDone /\ ZeroLength =>
        /\ retd = IF InRect(OriginX, OriginY, ra) THEN D(0) ELSE INFINITY
        /\ divs = {}
    /\ (RectDone \/ CircleDone) => \A x \in divs : ~Eq[x, D(0)] \/ ~ZeroLength

\* a zero-length ray on the edge of a rect: the origin-inside check wins
C3_Witness ==
    /\ RectDone /\ ZeroLength
    /\ OnEdge(OriginX, OriginY, ra)
    /\ I(ra.dim.x) # 0
    /\ retd = D(0)

\* C10: in v2d_raycast_rect the exit-point branch (h = hmax, taken when
\* hmin < 0) never produces a hit: past the three shortcuts every finite value
\* returned is the entry value hmin and lies strictly between 0 and 1; so the
\* function returns 0 if and only if the origin is inside the rect, or the
\* direction is non-zero and the end point is inside the rect.
C10_HitIsEntry ==
    /\ RectSlabs /\ retd.k = "fin" =>
        /\ Eq[retd, SlabXY(ray, ra).hmin]
        /\ Lt[D(0), retd] /\ Lt[retd, D(1)]
    /\ RectDone =>
        (Eq[retd, D(0)] <=>
            \/ InRect(OriginX, OriginY, ra)
            \/ ~ZeroLength /\ InRect(EndX, EndY, ra))

\* a ray that starts before a rect and ends beyond it hits it on the way
C10_Witness ==
    /\ RectSlabs /\ retd.k = "fin"
    /\ I(ra.dim.x) # 0 /\ I(ra.dim.y) # 0
    /\ I(ray.dir.x) # 0 /\ I(ray.dir.y) # 0

\* the fractions a/m, as pairs <<a, m>> with m > 0, at which the segment of
\* the ray argument can first touch the rect argument: its two ends and its
\* crossings of the four lines through the edges of the rect
Crossings ==
    {<<0, 1>>, <<1, 1>>}
    \cup {<<(e - OriginX) * Sgn(I(ray.dir.x)), Abs(I(ray.dir.x))>> :
            e \in {t \in {Lo(I(ra.pos.x), I(ra.dim.x)), Hi(I(ra.pos.x), I(ra.dim.x))} :
                      I(ray.dir.x) # 0}}
    \cup {<<(e - OriginY) * Sgn(I(ray.dir.y)), Abs(I(ray.dir.y))>> :
            e \in {t \in {Lo(I(ra.pos.y), I(ra.dim.y)), Hi(I(ra.pos.y), I(ra.dim.y))} :
                      I(ray.dir.y) # 0}}

\* the point origin + (a/m) * direction lies in the closed rect
TouchesAt(q) ==
    /\ 0 <= q[1] /\ q[1] <= q[2]
    /\ Lo(I(ra.pos.x), I(ra.dim.x)) * q[2] <= OriginX * q[2] + q[1] * I(ray.dir.x)
    /\ OriginX * q[2] + q[1] * I(ray.dir.x) <= Hi(I(ra.pos.x), I(ra.dim.x)) * q[2]
    /\ Lo(I(ra.pos.y), I(ra.dim.y)) * q[2] <= OriginY * q[2] + q[1] * I(ray.dir.y)
    /\ OriginY * q[2] + q[1] * I(ray.dir.y) <= Hi(I(ra.pos.y), I(ra.dim.y)) * q[2]

Touches == {q \in Crossings : TouchesAt(q)}

\* q is the earliest fraction at which the segment touches the rect
Earliest(q) ==
    /\ q \in Touches
    /\ \A q2 \in Touches : q[1] * q2[2] <= q2[1] * q[2]

\* the rational double x is the fraction q
IsFraction(x, q) == x.k = "fin" /\ x.sg = 0 /\ x.n * q[2] = q[1] * x.d

\* C2: for every rect and every ray with non-zero direction whose origin and
\* end point are both outside the rect, v2d_raycast_rect returns a finite value
\* if and only if some point of the segment lies in the closed rect, and that
\* value is the earliest fraction at which it does; the ray from (-5, 0.5)
\* with direction (10, 0) against the rect (0,0), (1,1) returns 0.5 and the
\* ray from (-5, 5) with direction (10, 0) returns no hit.
C2_EarliestTouch ==
    /\ RectSlabs =>
        /\ retd.k = "fin" <=> Touches # {}
        /\ retd.k = "fin" => \E q \in Touches : Earliest(q) /\ IsFraction(retd, q)
    /\ Eq[v2d_raycast_rect(Ray(v2d_vec(D(-5), Fin(1, 2)), Vec(10, 0)),
                           Rect(Vec(0, 0), Vec(1, 1))), Fin(1, 2)]
    /\ v2d_raycast_rect(Ray(Vec(-5, 5), Vec(10, 0)), Rect(Vec(0, 0), Vec(1, 1)))
          = INFINITY

\* the ray argument moves along one axis only
ZeroOnX == I(ray.dir.x) = 0 /\ I(ray.dir.y) # 0

ZeroOnY == I(ray.dir.y) = 0 /\ I(ray.dir.x) # 0

\* the result the slab of one axis determines alone: origin p, direction d,
\* rect interval [lo, hi]
AxisAlone(p, d, lo, hi) ==
    LET h1 == Mul[D(lo - p), Inv[D(d)]]
        h2 == Mul[D(hi - p), Inv[D(d)]]
    IN  SlabResult(fmin[h1, h2], fmax[h1, h2])

Infinite(x) == x = INFINITY \/ x = NegInfinity

\* C9: in v2d_raycast_rect, for a ray whose direction is zero on exactly one
\* axis (origin and end point outside the rect), the two plane-crossing values
\* of the zero-direction axis are signed infinities, never NaN, and whenever
\* the origin's coordinate on that axis lies in the rect's closed interval on
\* that axis (its ends included) the result is the one the other axis's
\* entry/exit interval determines alone.
C9_ZeroAxisUnconstrained ==
    /\ RectSlabs /\ ZeroOnX =>
        /\ Infinite(SlabX(ray, ra).h1) /\ Infinite(SlabX(ray, ra).h2)
        /\ Lo(I(ra.pos.x), I(ra.dim.x)) <= OriginX
             /\ OriginX <= Hi(I(ra.pos.x), I(ra.dim.x)) =>
               retd = AxisAlone(OriginY, I(ray.dir.y),
                                Lo(I(ra.pos.y), I(ra.dim.y)), Hi(I(ra.pos.y), I(ra.dim.y)))
    /\ RectSlabs /\ ZeroOnY =>
        /\ Infinite(SlabXY(ray, ra).h1) /\ Infinite(SlabXY(ray, ra).h2)
        /\ Lo(I(ra.pos.y), I(ra.dim.y)) <= OriginY
             /\ OriginY <= Hi(I(ra.pos.y), I(ra.dim.y)) =>
               retd = AxisAlone(OriginX, I(ray.dir.x),
                                Lo(I(ra.pos.x), I(ra.dim.x)), Hi(I(ra.pos.x), I(ra.dim.x)))

====
